---- MODULE Spec2Model ----
(***************************************************************************)
(* Employee directory: the service layer (EmployeeService) that combines   *)
(* the DynamoDB record store (EmployeeDatabase) and the S3 blob store      *)
(* (EmployeeStorage), and the two Flask routes that sequence service       *)
(* calls.  Every store call (get_item, scan, put_item, delete_item,        *)
(* list_objects_v2, delete_objects, delete_object, upload_fileobj) is one  *)
(* atomic step of the calling request; requests of different callers       *)
(* interleave between store calls.                                         *)
(*                                                                         *)
(* Strings are sequences of tokens (one-character strings, or one token    *)
(* for a fixed literal such as "profile-pictures/"), so that prefix        *)
(* matching, emptiness, length and membership of a character are computed. *)
(* A timestamp (datetime.utcnow().isoformat()) is the number of requests    *)
(* started when the clock is read: the clock advances between requests.    *)
(***************************************************************************)
EXTENDS Integers, Sequences, FiniteSets, TLC

(* ------------------------------ bounds ------------------------------- *)

\* Requests started in one behaviour whose requests run one at a time.
MaxOps == 4

\* Requests started in one behaviour whose requests overlap.
MaxRaceOps == 2

\* Requests started in one behaviour in which store calls may fail.
MaxFaultOps == 3

\* Requests started in one behaviour of the specifications with few requests.
MaxFewOps == 2

\* Objects uploaded in one behaviour (each upload draws a fresh uuid4).
MaxUploads == 3

\* Items a single DynamoDB scan call reads before it returns a page
\* (the store's 1 MB page limit, counted in items).
PageSize == 1

\* Items the largest page of a full scan holds.
MaxPageSize == 2

Procs == {1, 2}

(* ------------------------------- state ------------------------------- *)

VARIABLES
    table,      \* the DynamoDB table: employee_id -> item, for the ids present
    blobs,      \* the S3 bucket: the set of object keys
    nextUid,    \* the number of the next uuid4 drawn by an upload
    started,    \* requests started so far
    env,        \* what the environment does: overlapping requests, store errors,
                \* the uuid4 draws, the number of requests
    proc        \* per caller: the request in flight, its position and locals

vars == <<table, blobs, nextUid, started, env, proc>>

(* --------------------------- program constants ----------------------- *)

MaxFirstName == 50
MaxLastName == 50
MaxEmail == 100
MaxPosition == 100
MaxDepartment == 50
MaxPhone == 20

S3_PROFILE_PICTURES_PREFIX == <<"profile-pictures/">>

DOCUMENTS_PREFIX == <<"documents/">>

(* ------------------------------ strings ------------------------------ *)

Empty == <<>>

E1 == <<"e1">>
E2 == <<"e2">>
E3 == <<"e3">>

Ids == {E1, E2, E3}

\* An employee_id that begins with another one followed by an underscore.
E1X == <<"e1", "_", "x">>

NestedIds == {E1, E1X}

\* The order in which a scan of the table meets the items (store-defined).
ScanOrder == <<E1, E2, E3, E1X>>

EmailA == <<"a", "@", "b", ".", "c">>
EmailB == <<"c", "@", "d", ".", "e">>
EmailNoAt == <<"a", ".", "c">>
EmailBlank == <<" ">>

ValidEmails == {EmailA, EmailB}

Emails == ValidEmails \cup {EmailNoAt, EmailBlank}

Contains(s, c) == \E i \in 1..Len(s) : s[i] = c

RECURSIVE LStrip(_)
LStrip(s) == IF s # Empty /\ Head(s) = " " THEN LStrip(Tail(s)) ELSE s

RECURSIVE RStrip(_)
RStrip(s) == IF s # Empty /\ s[Len(s)] = " " THEN RStrip(SubSeq(s, 1, Len(s) - 1)) ELSE s

\* str.strip()
Strip(s) == RStrip(LStrip(s))

\* Python's "not s or not s.strip()"
Blank(s) == s = Empty \/ Strip(s) = Empty

StartsWith(s, prefix) ==
    /\ Len(s) >= Len(prefix)
    /\ SubSeq(s, 1, Len(prefix)) = prefix

(* ------------------------------ Employee ----------------------------- *)

\* Employee.__init__ / to_dict / from_dict: the flat record.
Employee(id, email, phone, url, created_at, updated_at) ==
    [ employee_id |-> id,
      first_name |-> <<"J">>,
      last_name |-> <<"D">>,
      email |-> email,
      position |-> <<"e", "n", "g">>,
      department |-> <<"R", "D">>,
      phone |-> phone,
      hire_date |-> Empty,
      profile_picture_url |-> url,
      created_at |-> created_at,
      updated_at |-> updated_at ]

NullRec == Employee(Empty, Empty, Empty, Empty, 0, 0)

\* An employee_id passed as the argument of a request.
IdOnly(id) == [NullRec EXCEPT !.employee_id = id]

\* datetime.utcnow() read while a request runs.
UtcNow == started

\* Employee(**employee_data) built by a caller for a new request: created_at
\* and updated_at are not passed, so both are the time of construction.
NewEmployee(id, email, phone, url) ==
    Employee(id, email, phone, url, started + 1, started + 1)

\* Employee.update_timestamp
UpdateTimestamp(e) == [e EXCEPT !.updated_at = UtcNow]

\* A created_at or updated_at that is None or '' (no program path stores one).
NoTime == -1

\* Employee.to_dict: the item put_item writes, one attribute per field.
ToDict(e) == e

\* Employee.from_dict: every attribute goes through __init__, where a missing
\* created_at or updated_at becomes the time of the read.
FromDict(data) ==
    [data EXCEPT !.created_at = IF @ = NoTime THEN UtcNow ELSE @,
                 !.updated_at = IF @ = NoTime THEN UtcNow ELSE @]

When(cond, msg) == IF cond THEN <<msg>> ELSE <<>>

\* Employee.validate: the ordered list of error messages.
Validate(e) ==
    When(e.employee_id = Empty, "Employee ID is required")
    \o When(Blank(e.first_name), "First name is required")
    \o When(Blank(e.last_name), "Last name is required")
    \o (IF Blank(e.email)
          THEN <<"Email is required">>
          ELSE When(~Contains(e.email, "@") \/ ~Contains(e.email, "."),
                    "Invalid email format"))
    \o When(Blank(e.position), "Position is required")
    \o When(Blank(e.department), "Department is required")
    \o When(Len(e.first_name) > MaxFirstName, "First name must be 50 characters or less")
    \o When(Len(e.last_name) > MaxLastName, "Last name must be 50 characters or less")
    \o When(Len(e.email) > MaxEmail, "Email must be 100 characters or less")
    \o When(Len(e.position) > MaxPosition, "Position must be 100 characters or less")
    \o When(Len(e.department) > MaxDepartment, "Department must be 50 characters or less")
    \o When(e.phone # Empty /\ Len(e.phone) > MaxPhone,
            "Phone number must be 20 characters or less")

\* A validation whose outcome is not looked at.
IsValidAlways(e) == TRUE

\* is_valid of Employee.validate
IsValid(e) == Len(Validate(e)) = 0

(* ---------------------------- record store --------------------------- *)

\* The result of a lookup: an Employee, or None.
NoEmp == [found |-> FALSE, rec |-> NullRec]

Some(r) == [found |-> TRUE, rec |-> r]

\* table.get_item inside EmployeeDatabase.get_employee; a store error is
\* caught and None returned.
DbGetEmployee(t, id, fail) ==
    IF ~fail /\ id \in DOMAIN t THEN Some(FromDict(t[id])) ELSE NoEmp

RECURSIVE ScanFrom(_, _)
\* The items of the table from position i of the scan order on.
ScanFrom(t, i) ==
    IF i > Len(ScanOrder) THEN <<>>
    ELSE (IF ScanOrder[i] \in DOMAIN t THEN <<t[ScanOrder[i]]>> ELSE <<>>)
         \o ScanFrom(t, i + 1)

\* One table.scan call without ExclusiveStartKey: the first page of items.
FirstPage(t) ==
    LET all == ScanFrom(t, 1)
    IN  SubSeq(all, 1, IF Len(all) < PageSize THEN Len(all) ELSE PageSize)

\* The position of the item of employee id in the scan order.
ScanPos(id) == CHOOSE i \in 1..Len(ScanOrder) : ScanOrder[i] = id

\* One table.scan call of get_all_employees: the page of at most n items
\* after position start (ExclusiveStartKey; 0 for the first call).  The
\* response carries LastEvaluatedKey, the position of the last item read,
\* when items remain after the page, and may carry it when the page ended
\* at the limit with the last item of the table (full).
ScanPage(t, start, n, full) ==
    LET rest == ScanFrom(t, start + 1)
        items == SubSeq(rest, 1, IF Len(rest) < n THEN Len(rest) ELSE n)
    IN  [ Items |-> items,
          more |-> Len(rest) > n \/ (full /\ Len(rest) = n),
          LastEvaluatedKey |-> IF items = <<>> THEN start
                               ELSE ScanPos(items[Len(items)].employee_id) ]

\* FilterExpression Attr('email').eq(email), applied to the page read.
FilterEmail(items, email) == SelectSeq(items, LAMBDA r : r.email = email)

\* EmployeeDatabase.get_employee_by_email: one scan call, first match of
\* the page it returns; a store error is caught and None returned.
GetEmployeeByEmail(t, email, fail) ==
    LET items == FilterEmail(FirstPage(t), email)
    IN  IF ~fail /\ items # <<>> THEN Some(FromDict(items[1])) ELSE NoEmp

PutItemLost(t, r) == t

\* table.put_item(Item=employee.to_dict())
PutItem(t, r) ==
    [i \in DOMAIN t \cup {r.employee_id} |-> IF i = r.employee_id THEN ToDict(r) ELSE t[i]]

DeleteItemKept(t, id) == t

\* table.delete_item(Key={'employee_id': employee_id})
DeleteItem(t, id) == [i \in DOMAIN t \ {id} |-> t[i]]

(* ----------------------------- blob store ---------------------------- *)

\* uuid.uuid4().hex of the n-th upload: the generator's n-th draw.
UuidHex(n) == ToString(env.seed[n])

\* EmployeeStorage.upload_profile_picture: s3_key
PictureKey(id, n) == S3_PROFILE_PICTURES_PREFIX \o id \o <<"_", UuidHex(n), ".png">>

\* EmployeeStorage.upload_document: s3_key
DocumentKey(id, n) ==
    DOCUMENTS_PREFIX \o id \o <<"_", "general", "_", UuidHex(n), ".pdf">>

\* object_url
ObjectUrl(key) == <<"https://", "bucket", ".s3.", "region", ".amazonaws.com/">> \o key

\* list_objects_v2(Prefix=prefix): the keys of the bucket under the prefix.
ListObjects(b, prefix) == {k \in b : StartsWith(k, prefix)}

PicturePrefix(id) == S3_PROFILE_PICTURES_PREFIX \o id \o <<"_">>

DocumentPrefix(id) == DOCUMENTS_PREFIX \o id \o <<"_">>

(* --------------------------- initial state --------------------------- *)

EmptyTable == [i \in {} |-> NullRec]

NoRes == [ok |-> FALSE, url |-> Empty]

NoPre == [table |-> EmptyTable, blobs |-> {}]

\* The dictionary health_check returns, before it is filled in.
NoHealth == [database |-> FALSE, storage |-> FALSE, overall |-> FALSE]

\* What the two health probes met, before they are made.
NoProbes == [db |-> "none", s3 |-> "none"]

\* The statistics dictionary before get_statistics fills it.
NoStats ==
    [ total_employees |-> 0, total_departments |-> 0, total_positions |-> 0,
      employees_with_pictures |-> 0, department_breakdown |-> [d \in {} |-> 0],
      storage_error |-> FALSE ]

IdleProc ==
    [ op |-> "none", pc |-> "idle", rec |-> NullRec, key |-> Empty, file |-> FALSE,
      emp |-> NoEmp, keys |-> {}, storage_ok |-> TRUE,
      res |-> NoRes, calls |-> 0, pre |-> NoPre, no |-> 0, during |-> {},
      scan_raised |-> FALSE, health |-> NoHealth, probes |-> NoProbes,
      employees |-> <<>>, last_key |-> 0, get_raised |-> FALSE,
      departments |-> {}, positions |-> {}, stats |-> NoStats ]

\* Tables the directory can hold when the callers arrive.
InitTables ==
    { EmptyTable,
      PutItem(EmptyTable, Employee(E1, EmailA, Empty, Empty, 0, 0)),
      PutItem(PutItem(EmptyTable, Employee(E1, EmailA, Empty, Empty, 0, 0)), Employee(E2, EmailB, Empty, Empty, 0, 0)) }

\* Tables whose employee ids are nested.
NestedTables ==
    { PutItem(EmptyTable, Employee(E1, EmailA, Empty, Empty, 0, 0)),
      PutItem(PutItem(EmptyTable, Employee(E1, EmailA, Empty, Empty, 0, 0)),
              Employee(E1X, EmailB, Empty, Empty, 0, 0)) }

\* The sequences of distinct values the uuid generator can draw.
Seeds == {s \in [1..MaxUploads -> 1..MaxUploads] : \A i, j \in 1..MaxUploads : s[i] = s[j] => i = j}

\* The draws in ascending order.
Ascending == [n \in 1..MaxUploads |-> n]

Envs ==
    [concurrent : BOOLEAN, dbFaults : BOOLEAN, s3Faults : BOOLEAN, seed : Seeds,
     ops : {MaxOps, MaxRaceOps, MaxFaultOps, MaxFewOps}, nested : BOOLEAN]

Init ==
    /\ env \in Envs
    /\ table \in IF env.nested THEN NestedTables ELSE InitTables
    /\ blobs = {}
    /\ nextUid = 1
    /\ started = 0
    /\ proc = [p \in Procs |-> IdleProc]

\* Whether a call to the record store / the blob store raises.
DbFail == IF env.dbFaults THEN BOOLEAN ELSE {FALSE}

S3Fail == IF env.s3Faults THEN BOOLEAN ELSE {FALSE}

InputEmails == {EmailA, EmailB, EmailNoAt, EmailBlank}

\* The employee ids the callers pass.
InputIds == IF env.nested THEN NestedIds ELSE Ids

Phone1 == <<"5", "5", "5">>

InputPhones == {Empty, Phone1}

UploadOps == {"upload_profile_picture", "upload_document", "web_add"}

BeforeUpload == {"pic_get", "pic_list", "pic_delete", "pic_upload", "doc_get", "doc_upload"}

\* Uploads that requests in flight may still make.
PendingUploads == Cardinality({q \in Procs : proc[q].pc \in BeforeUpload})

\* The requests one behaviour starts.
MaxStarted == env.ops

CanStart(p) ==
    /\ proc[p].pc = "idle"
    /\ started < MaxStarted
    /\ env.concurrent \/ \A q \in Procs : proc[q].pc = "idle"

CanUpload == nextUid + PendingUploads <= MaxUploads

\* The stores as the request finds them, kept for requests that run alone.
Pre == IF env.concurrent THEN NoPre ELSE [table |-> table, blobs |-> blobs]

\* The numbers of the requests that are executing.
InFlight == {proc[q].no : q \in {r \in Procs : proc[r].pc \notin {"idle", "done"}}}

Begin(p, op, pc, rec, key, file) ==
    /\ started' = started + 1
    /\ proc' = [proc EXCEPT ![p] =
                  [IdleProc EXCEPT !.op = op, !.pc = pc, !.rec = rec, !.key = key,
                                   !.file = file, !.pre = Pre,
                                   !.no = started + 1, !.during = InFlight]]
    /\ UNCHANGED <<table, blobs, nextUid, env>>

\* The request returns: its locals die, the caller holds the result.
Finish(pr, ok, url) ==
    [pr EXCEPT !.pc = "done", !.res = [ok |-> ok, url |-> url],
               !.emp = NoEmp, !.keys = {}, !.storage_ok = TRUE]

Goto(pr, pc) == [pr EXCEPT !.pc = pc]

Called(pr) == [pr EXCEPT !.calls = @ + 1]

Set(p, pr) == proc' = [proc EXCEPT ![p] = pr]

Id(p) == proc[p].rec.employee_id

(* ------------------------ read-only requests ------------------------- *)

\* The number n of the upload that made key k (its uuid4 is UuidHex(n)).
UuidNum(k) == CHOOSE n \in 1..MaxUploads : \E i \in 1..Len(k) : k[i] = UuidHex(n)

RECURSIVE KeysInOrder(_)
\* The Contents of a listing: list_objects_v2 returns the keys in ascending
\* order of the key; keys under one employee's prefix differ in their uuid.
KeysInOrder(ks) ==
    IF ks = {} THEN <<>>
    ELSE LET k == CHOOSE x \in ks :
                      \A y \in ks : env.seed[UuidNum(x)] <= env.seed[UuidNum(y)]
         IN  <<k>> \o KeysInOrder(ks \ {k})

\* generate_presigned_url('get_object', Key=s3_key, ExpiresIn=3600)
PresignedUrl(key) == ObjectUrl(key) \o <<"?X-Amz-Expires=", "3600">>

\* EmployeeStorage.get_profile_picture_url, no store call failing
GetProfilePictureUrl(b, id) ==
    LET contents == KeysInOrder(ListObjects(b, PicturePrefix(id)))
    IN  IF contents = <<>> THEN Empty ELSE PresignedUrl(contents[1])

\* get_employee without the pre-signed URL.
GetEmployeeStored(t, b, id) == DbGetEmployee(t, id, FALSE)

\* EmployeeService.get_employee run alone, no store call failing
GetEmployee(t, b, id) ==
    LET employee == DbGetEmployee(t, id, FALSE)
        profile_url == GetProfilePictureUrl(b, id)
    IN  IF employee.found /\ profile_url # Empty
          THEN Some([employee.rec EXCEPT !.profile_picture_url = profile_url])
          ELSE employee

\* EmployeeService.get_employee_documents run alone, no store call failing:
\* the keys of the document_info entries returned
GetEmployeeDocuments(t, b, id) ==
    IF ~DbGetEmployee(t, id, FALSE).found
      THEN <<>>
      ELSE KeysInOrder(ListObjects(b, DocumentPrefix(id)))

(* --------------------------- the requests ---------------------------- *)

\* EmployeeService.add_employee(employee)
CallAddEmployee(p) ==
    /\ CanStart(p)
    /\ \E id \in InputIds, em \in InputEmails :
          Begin(p, "add_employee", "add_validate", NewEmployee(id, em, Empty, Empty), Empty, FALSE)

\* EmployeeService.update_employee(employee); the caller builds the record
\* from form fields and passes the picture reference of the employee as
\* get_employee returned it (app.py edit_employee).
CallUpdateEmployee(p) ==
    /\ CanStart(p)
    /\ \E id \in InputIds, em \in InputEmails, ph \in InputPhones :
          LET url == GetEmployee(table, blobs, id).rec.profile_picture_url
          IN  Begin(p, "update_employee", "upd_validate", NewEmployee(id, em, ph, url),
                    Empty, FALSE)

\* EmployeeService.delete_employee(employee_id)
CallDeleteEmployee(p) ==
    /\ CanStart(p)
    /\ \E id \in InputIds :
          Begin(p, "delete_employee", "del_get", IdOnly(id), Empty, FALSE)

\* EmployeeService.upload_profile_picture(file_obj, employee_id, filename)
CallUploadProfilePicture(p) ==
    /\ CanStart(p)
    /\ CanUpload
    /\ \E id \in InputIds :
          Begin(p, "upload_profile_picture", "pic_get", IdOnly(id), Empty, TRUE)

\* EmployeeService.delete_profile_picture(employee_id)
CallDeleteProfilePicture(p) ==
    /\ CanStart(p)
    /\ \E id \in InputIds :
          Begin(p, "delete_profile_picture", "dp_get", IdOnly(id), Empty, FALSE)

\* EmployeeService.upload_document(file_obj, employee_id, filename, document_type)
CallUploadDocument(p) ==
    /\ CanStart(p)
    /\ CanUpload
    /\ \E id \in InputIds :
          Begin(p, "upload_document", "doc_get", IdOnly(id), Empty, TRUE)

\* EmployeeService.delete_document(s3_key), for a key the bucket holds
CallDeleteDocument(p) ==
    /\ CanStart(p)
    /\ \E k \in blobs :
          Begin(p, "delete_document", "dd_delete", NullRec, k, FALSE)

\* A uuid4 never drawn before: no record, no object and no request has it.
FreshId(id) ==
    /\ id \notin DOMAIN table
    /\ ListObjects(blobs, PicturePrefix(id)) = {}
    /\ ListObjects(blobs, DocumentPrefix(id)) = {}
    /\ \A q \in Procs : proc[q].pc = "idle" \/ proc[q].rec.employee_id # id

\* app.py add_employee (POST): with a picture in the form it first calls
\* upload_profile_picture, then builds the Employee and calls add_employee.
CallWebAdd(p) ==
    /\ CanStart(p)
    /\ \E id \in InputIds, em \in InputEmails, file \in BOOLEAN :
          /\ FreshId(id)
          /\ file => CanUpload
          /\ Begin(p, "web_add", IF file THEN "pic_get" ELSE "add_validate",
                   NewEmployee(id, em, Empty, Empty), Empty, file)

\* The caller takes the result.
Return(p) ==
    /\ proc[p].pc = "done"
    /\ Set(p, IdleProc)
    /\ UNCHANGED <<table, blobs, nextUid, started, env>>

(* -------------------- add_employee / update_employee ----------------- *)

At(p, pc) == proc[p].pc = pc

AddValidateSkipped(p) ==
    /\ At(p, "add_validate")
    /\ Set(p, Goto(proc[p], "add_scan"))
    /\ UNCHANGED <<table, blobs, nextUid, started, env>>

\* add_employee: employee.validate() before any store call.
AddValidate(p) ==
    /\ At(p, "add_validate")
    /\ Set(p, IF IsValid(proc[p].rec)
                THEN Goto(proc[p], "add_scan")
                ELSE Finish(proc[p], FALSE, Empty))
    /\ UNCHANGED <<table, blobs, nextUid, started, env>>

\* add_employee: existing_employee = db.get_employee_by_email(employee.email);
\* a scan that raises comes back as None.
AddScanEmail(p) ==
    /\ At(p, "add_scan")
    /\ \E fail \in DbFail :
          LET existing == GetEmployeeByEmail(table, proc[p].rec.email, fail)
              pr == [Called(proc[p]) EXCEPT !.scan_raised = fail]
          IN  Set(p, IF existing.found
                       THEN Finish(pr, FALSE, Empty)
                       ELSE Goto(pr, "add_create_get"))
    /\ UNCHANGED <<table, blobs, nextUid, started, env>>

\* A create_employee without the existence check.
AddCreateGetUnchecked(p) ==
    /\ At(p, "add_create_get")
    /\ Set(p, IF ~IsValid(proc[p].rec)
                THEN Finish(proc[p], FALSE, Empty)
                ELSE Goto(Called(proc[p]), "add_put"))
    /\ UNCHANGED <<table, blobs, nextUid, started, env>>

\* db.create_employee: validate again, then the existence check
\* get_employee; a get_item that raises comes back as None.
AddCreateGet(p) ==
    /\ At(p, "add_create_get")
    /\ \E fail \in DbFail :
          LET existing == DbGetEmployee(table, Id(p), fail)
              pr == [Called(proc[p]) EXCEPT !.get_raised = fail]
          IN  Set(p, IF ~IsValid(proc[p].rec)
                       THEN Finish(proc[p], FALSE, Empty)
                       ELSE IF existing.found
                       THEN Finish(pr, FALSE, Empty)
                       ELSE Goto(pr, "add_put"))
    /\ UNCHANGED <<table, blobs, nextUid, started, env>>

\* db.create_employee: table.put_item; add_employee returns its outcome.
AddPut(p) ==
    /\ At(p, "add_put")
    /\ \E fail \in DbFail :
          /\ table' = IF fail THEN table ELSE PutItem(table, proc[p].rec)
          /\ Set(p, Finish(Called(proc[p]), ~fail, Empty))
    /\ UNCHANGED <<blobs, nextUid, started, env>>

\* update_employee: employee.validate() before any store call.
UpdValidate(p) ==
    /\ At(p, "upd_validate")
    /\ Set(p, IF IsValid(proc[p].rec)
                THEN Goto(proc[p], "upd_get")
                ELSE Finish(proc[p], FALSE, Empty))
    /\ UNCHANGED <<table, blobs, nextUid, started, env>>

\* update_employee: existing_employee = db.get_employee(employee.employee_id)
UpdGet(p) ==
    /\ At(p, "upd_get")
    /\ \E fail \in DbFail :
          LET existing == DbGetEmployee(table, Id(p), fail)
          IN  Set(p, IF ~existing.found
                       THEN Finish(Called(proc[p]), FALSE, Empty)
                       ELSE IF existing.rec.email # proc[p].rec.email
                       THEN Goto([Called(proc[p]) EXCEPT !.emp = existing], "upd_scan")
                       ELSE Goto([Called(proc[p]) EXCEPT !.emp = existing], "upd_db_get"))
    /\ UNCHANGED <<table, blobs, nextUid, started, env>>

\* update_employee: the email changes, email_exists = db.get_employee_by_email
UpdScanEmail(p) ==
    /\ At(p, "upd_scan")
    /\ \E fail \in DbFail :
          LET email_exists == GetEmployeeByEmail(table, proc[p].rec.email, fail)
          IN  Set(p, IF email_exists.found /\ email_exists.rec.employee_id # Id(p)
                       THEN Finish(Called(proc[p]), FALSE, Empty)
                       ELSE Goto(Called(proc[p]), "upd_db_get"))
    /\ UNCHANGED <<table, blobs, nextUid, started, env>>

\* db.update_employee: validate again, then the existence check get_employee.
UpdDbGet(p) ==
    /\ At(p, "upd_db_get")
    /\ \E fail \in DbFail :
          LET existing == DbGetEmployee(table, Id(p), fail)
          IN  Set(p, IF ~IsValid(proc[p].rec)
                       THEN Finish(proc[p], FALSE, Empty)
                       ELSE IF ~existing.found
                       THEN Finish(Called(proc[p]), FALSE, Empty)
                       ELSE Goto(Called(proc[p]), "upd_put"))
    /\ UNCHANGED <<table, blobs, nextUid, started, env>>

\* A put_item conditional on the item still being the one update_employee
\* read.
UpdPutIfUnchanged(p) ==
    /\ At(p, "upd_put")
    /\ \E fail \in DbFail :
          LET stale == ~DbGetEmployee(table, Id(p), FALSE).found
                       \/ DbGetEmployee(table, Id(p), FALSE).rec # proc[p].emp.rec
          IN  /\ table' = IF fail \/ stale THEN table
                                            ELSE PutItem(table, UpdateTimestamp(proc[p].rec))
              /\ Set(p, Finish(Called(proc[p]), ~fail /\ ~stale, Empty))
    /\ UNCHANGED <<blobs, nextUid, started, env>>

\* db.update_employee: update_timestamp, then table.put_item overwrites the
\* item.
UpdPut(p) ==
    /\ At(p, "upd_put")
    /\ \E fail \in DbFail :
          /\ table' = IF fail THEN table
                               ELSE PutItem(table, UpdateTimestamp(proc[p].rec))
          /\ Set(p, Finish(Called(proc[p]), ~fail, Empty))
    /\ UNCHANGED <<blobs, nextUid, started, env>>

(* --------------------------- delete_employee ------------------------- *)

\* delete_employee: employee = db.get_employee(employee_id)
DelGet(p) ==
    /\ At(p, "del_get")
    /\ \E fail \in DbFail :
          LET employee == DbGetEmployee(table, Id(p), fail)
          IN  Set(p, IF ~employee.found
                       THEN Finish(Called(proc[p]), FALSE, Empty)
                       ELSE Goto(Called(proc[p]), "del_list_pics"))
    /\ UNCHANGED <<table, blobs, nextUid, started, env>>

\* storage.delete_all_employee_files: list the profile pictures.
DelListPictures(p) ==
    /\ At(p, "del_list_pics")
    /\ \E fail \in S3Fail :
          Set(p, IF fail
                   THEN Goto([Called(proc[p]) EXCEPT !.storage_ok = FALSE], "del_db_get")
                   ELSE Goto([Called(proc[p]) EXCEPT
                                 !.keys = ListObjects(blobs, PicturePrefix(Id(p)))],
                             "del_list_docs"))
    /\ UNCHANGED <<table, blobs, nextUid, started, env>>

\* storage.delete_all_employee_files: list the documents.
DelListDocuments(p) ==
    /\ At(p, "del_list_docs")
    /\ \E fail \in S3Fail :
          LET objects_to_delete ==
                  proc[p].keys \cup ListObjects(blobs, DocumentPrefix(Id(p)))
          IN  Set(p, IF fail
                       THEN Goto([Called(proc[p]) EXCEPT !.storage_ok = FALSE, !.keys = {}],
                                 "del_db_get")
                       ELSE Goto([Called(proc[p]) EXCEPT !.keys = objects_to_delete],
                                 IF objects_to_delete # {} THEN "del_objects"
                                                           ELSE "del_db_get"))
    /\ UNCHANGED <<table, blobs, nextUid, started, env>>

\* storage.delete_all_employee_files: delete_objects of everything listed.
DelObjects(p) ==
    /\ At(p, "del_objects")
    /\ \E fail \in S3Fail :
          /\ blobs' = IF fail THEN blobs ELSE blobs \ proc[p].keys
          /\ Set(p, Goto([Called(proc[p]) EXCEPT !.storage_ok = ~fail, !.keys = {}],
                         "del_db_get"))
    /\ UNCHANGED <<table, nextUid, started, env>>

\* db.delete_employee: the existence check get_employee (the outcome of the
\* file deletion is only logged).
DelDbGet(p) ==
    /\ At(p, "del_db_get")
    /\ \E fail \in DbFail :
          LET existing == DbGetEmployee(table, Id(p), fail)
          IN  Set(p, IF ~existing.found
                       THEN Finish(Called(proc[p]), FALSE, Empty)
                       ELSE Goto(Called(proc[p]), "del_item"))
    /\ UNCHANGED <<table, blobs, nextUid, started, env>>

DelItemNeedsCleanup(p) ==
    /\ At(p, "del_item")
    /\ \E fail \in DbFail :
          /\ table' = IF fail THEN table ELSE DeleteItem(table, Id(p))
          /\ Set(p, Finish(Called(proc[p]), ~fail /\ proc[p].storage_ok, Empty))
    /\ UNCHANGED <<blobs, nextUid, started, env>>

\* db.delete_employee: table.delete_item; delete_employee returns db_success.
DelItem(p) ==
    /\ At(p, "del_item")
    /\ \E fail \in DbFail :
          /\ table' = IF fail THEN table ELSE DeleteItem(table, Id(p))
          /\ Set(p, Finish(Called(proc[p]), ~fail, Empty))
    /\ UNCHANGED <<blobs, nextUid, started, env>>

(* ------------------------ profile pictures --------------------------- *)

\* upload_profile_picture returns profile_url (None when url is empty).  In
\* the add route the result becomes the new Employee's profile_picture_url
\* (None is stored as "") and the route goes on to add_employee.
ReturnUpload(pr, url) ==
    IF pr.op = "web_add"
      THEN [pr EXCEPT !.pc = "add_validate",
                      !.rec = [@ EXCEPT !.profile_picture_url = url],
                      !.emp = NoEmp, !.keys = {}]
      ELSE Finish(pr, url # Empty, url)

\* upload_profile_picture: employee = db.get_employee(employee_id)
PicGet(p) ==
    /\ At(p, "pic_get")
    /\ \E fail \in DbFail :
          LET employee == DbGetEmployee(table, Id(p), fail)
          IN  Set(p, IF ~employee.found
                       THEN ReturnUpload(Called(proc[p]), Empty)
                       ELSE Goto([Called(proc[p]) EXCEPT !.emp = employee], "pic_list"))
    /\ UNCHANGED <<table, blobs, nextUid, started, env>>

\* storage.delete_profile_picture: list the pictures of the employee; its
\* outcome is not looked at by upload_profile_picture.
PicList(p) ==
    /\ At(p, "pic_list")
    /\ \E fail \in S3Fail :
          LET contents == ListObjects(blobs, PicturePrefix(Id(p)))
          IN  Set(p, IF fail \/ contents = {}
                       THEN Goto(Called(proc[p]), "pic_upload")
                       ELSE Goto([Called(proc[p]) EXCEPT !.keys = contents], "pic_delete"))
    /\ UNCHANGED <<table, blobs, nextUid, started, env>>

\* storage.delete_profile_picture: delete_objects of the pictures listed.
PicDelete(p) ==
    /\ At(p, "pic_delete")
    /\ \E fail \in S3Fail :
          /\ blobs' = IF fail THEN blobs ELSE blobs \ proc[p].keys
          /\ Set(p, Goto([Called(proc[p]) EXCEPT !.keys = {}], "pic_upload"))
    /\ UNCHANGED <<table, nextUid, started, env>>

\* storage.upload_profile_picture: upload_fileobj under a fresh key; then
\* employee.profile_picture_url = profile_url on the record read at the start.
PicUpload(p) ==
    /\ At(p, "pic_upload")
    /\ \E fail \in S3Fail :
          LET s3_key == PictureKey(Id(p), nextUid)
              employee == [proc[p].emp EXCEPT !.rec.profile_picture_url = ObjectUrl(s3_key)]
          IN  IF fail
                THEN /\ Set(p, ReturnUpload(Called(proc[p]), Empty))
                     /\ UNCHANGED <<blobs, nextUid>>
                ELSE /\ blobs' = blobs \cup {s3_key}
                     /\ nextUid' = nextUid + 1
                     /\ Set(p, Goto([Called(proc[p]) EXCEPT !.emp = employee], "pic_db_get"))
    /\ UNCHANGED <<table, started, env>>

\* db.update_employee(employee): validate, then the existence check; whatever
\* it returns, upload_profile_picture returns profile_url.
PicDbGet(p) ==
    /\ At(p, "pic_db_get")
    /\ \E fail \in DbFail :
          LET existing == DbGetEmployee(table, Id(p), fail)
              url == proc[p].emp.rec.profile_picture_url
          IN  Set(p, IF ~IsValid(proc[p].emp.rec)
                       THEN ReturnUpload(proc[p], url)
                       ELSE IF ~existing.found
                       THEN ReturnUpload(Called(proc[p]), url)
                       ELSE Goto(Called(proc[p]), "pic_put"))
    /\ UNCHANGED <<table, blobs, nextUid, started, env>>

\* db.update_employee(employee): table.put_item of the record read at the
\* start with the new reference.
PicPut(p) ==
    /\ At(p, "pic_put")
    /\ \E fail \in DbFail :
          /\ table' = IF fail THEN table
                               ELSE PutItem(table, UpdateTimestamp(proc[p].emp.rec))
          /\ Set(p, ReturnUpload(Called(proc[p]), proc[p].emp.rec.profile_picture_url))
    /\ UNCHANGED <<blobs, nextUid, started, env>>

\* delete_profile_picture: employee = db.get_employee(employee_id)
DelPicGet(p) ==
    /\ At(p, "dp_get")
    /\ \E fail \in DbFail :
          LET employee == DbGetEmployee(table, Id(p), fail)
          IN  Set(p, IF ~employee.found
                       THEN Finish(Called(proc[p]), FALSE, Empty)
                       ELSE Goto([Called(proc[p]) EXCEPT !.emp = employee], "dp_list"))
    /\ UNCHANGED <<table, blobs, nextUid, started, env>>

\* storage.delete_profile_picture: list; nothing listed is a success.  On
\* success employee.profile_picture_url = "".
DelPicList(p) ==
    /\ At(p, "dp_list")
    /\ \E fail \in S3Fail :
          LET contents == ListObjects(blobs, PicturePrefix(Id(p)))
              cleared == [proc[p].emp EXCEPT !.rec.profile_picture_url = Empty]
          IN  Set(p, IF fail
                       THEN Finish(Called(proc[p]), FALSE, Empty)
                       ELSE IF contents = {}
                       THEN Goto([Called(proc[p]) EXCEPT !.emp = cleared], "dp_db_get")
                       ELSE Goto([Called(proc[p]) EXCEPT !.keys = contents], "dp_delete"))
    /\ UNCHANGED <<table, blobs, nextUid, started, env>>

\* storage.delete_profile_picture: delete_objects of the pictures listed.
DelPicDelete(p) ==
    /\ At(p, "dp_delete")
    /\ \E fail \in S3Fail :
          LET cleared == [proc[p].emp EXCEPT !.rec.profile_picture_url = Empty]
          IN  /\ blobs' = IF fail THEN blobs ELSE blobs \ proc[p].keys
              /\ Set(p, IF fail
                          THEN Finish(Called(proc[p]), FALSE, Empty)
                          ELSE Goto([Called(proc[p]) EXCEPT !.emp = cleared, !.keys = {}],
                                    "dp_db_get"))
    /\ UNCHANGED <<table, nextUid, started, env>>

\* db.update_employee(employee): validate, then the existence check; whatever
\* it returns, delete_profile_picture returns storage_success.
DelPicDbGet(p) ==
    /\ At(p, "dp_db_get")
    /\ \E fail \in DbFail :
          LET existing == DbGetEmployee(table, Id(p), fail)
          IN  Set(p, IF ~IsValid(proc[p].emp.rec)
                       THEN Finish(proc[p], TRUE, Empty)
                       ELSE IF ~existing.found
                       THEN Finish(Called(proc[p]), TRUE, Empty)
                       ELSE Goto(Called(proc[p]), "dp_put"))
    /\ UNCHANGED <<table, blobs, nextUid, started, env>>

\* db.update_employee(employee): table.put_item of the record read at the
\* start with the reference cleared.
DelPicPut(p) ==
    /\ At(p, "dp_put")
    /\ \E fail \in DbFail :
          /\ table' = IF fail THEN table
                               ELSE PutItem(table, UpdateTimestamp(proc[p].emp.rec))
          /\ Set(p, Finish(Called(proc[p]), TRUE, Empty))
    /\ UNCHANGED <<blobs, nextUid, started, env>>

(* ----------------------------- documents ----------------------------- *)

DocGetUnchecked(p) ==
    /\ At(p, "doc_get")
    /\ Set(p, Goto(Called(proc[p]), "doc_upload"))
    /\ UNCHANGED <<table, blobs, nextUid, started, env>>

\* upload_document: employee = db.get_employee(employee_id)
DocGet(p) ==
    /\ At(p, "doc_get")
    /\ \E fail \in DbFail :
          LET employee == DbGetEmployee(table, Id(p), fail)
          IN  Set(p, IF ~employee.found
                       THEN Finish(Called(proc[p]), FALSE, Empty)
                       ELSE Goto(Called(proc[p]), "doc_upload"))
    /\ UNCHANGED <<table, blobs, nextUid, started, env>>

\* An upload that replaces the documents the employee has.
DocUploadReplacing(p) ==
    /\ At(p, "doc_upload")
    /\ \E fail \in S3Fail :
          LET s3_key == DocumentKey(Id(p), nextUid)
          IN  IF fail
                THEN /\ Set(p, Finish(Called(proc[p]), FALSE, Empty))
                     /\ UNCHANGED <<blobs, nextUid>>
                ELSE /\ blobs' = (blobs \ ListObjects(blobs, DocumentPrefix(Id(p))))
                                  \cup {s3_key}
                     /\ nextUid' = nextUid + 1
                     /\ Set(p, Finish(Called(proc[p]), TRUE, ObjectUrl(s3_key)))
    /\ UNCHANGED <<table, started, env>>

\* storage.upload_document: upload_fileobj under a fresh key.
DocUpload(p) ==
    /\ At(p, "doc_upload")
    /\ \E fail \in S3Fail :
          LET s3_key == DocumentKey(Id(p), nextUid)
          IN  IF fail
                THEN /\ Set(p, Finish(Called(proc[p]), FALSE, Empty))
                     /\ UNCHANGED <<blobs, nextUid>>
                ELSE /\ blobs' = blobs \cup {s3_key}
                     /\ nextUid' = nextUid + 1
                     /\ Set(p, Finish(Called(proc[p]), TRUE, ObjectUrl(s3_key)))
    /\ UNCHANGED <<table, started, env>>

\* delete_document: storage.delete_document, delete_object of the key given.
DocDelete(p) ==
    /\ At(p, "dd_delete")
    /\ \E fail \in S3Fail :
          /\ blobs' = IF fail THEN blobs ELSE blobs \ {proc[p].key}
          /\ Set(p, Finish(Called(proc[p]), ~fail, Empty))
    /\ UNCHANGED <<table, nextUid, started, env>>

(* ------------------------- get_all_employees ------------------------- *)

\* EmployeeService.get_all_employees()
CallGetAllEmployees(p) ==
    /\ CanStart(p)
    /\ Begin(p, "get_all_employees", "all_scan", NullRec, Empty, FALSE)

\* The loop of the service over the employees read: the stored picture
\* reference is replaced by a pre-signed URL where the bucket lists a
\* picture (get_profile_picture_url returns None for the ids in lost, whose
\* listing raised).
WithPictureUrls(employees, b, lost) ==
    [i \in 1..Len(employees) |->
        LET profile_url == GetProfilePictureUrl(b, employees[i].employee_id)
        IN  IF profile_url # Empty /\ employees[i].employee_id \notin lost
              THEN [employees[i] EXCEPT !.profile_picture_url = profile_url]
              ELSE employees[i]]

\* The ids whose listing can raise.
LostListings == IF env.s3Faults THEN SUBSET DOMAIN table ELSE {{}}

\* A get_all_employees that reads the first page only.
AllScanFirstPage(p) ==
    /\ At(p, "all_scan")
    /\ \E fail \in DbFail, n \in PageSize..MaxPageSize, lost \in LostListings :
          LET response == ScanPage(table, 0, n, FALSE)
              employees == [i \in 1..Len(response.Items) |-> FromDict(response.Items[i])]
          IN  Set(p, IF fail
                       THEN Finish([Called(proc[p]) EXCEPT !.employees = <<>>], FALSE, Empty)
                       ELSE Finish([Called(proc[p]) EXCEPT
                                       !.employees = WithPictureUrls(employees, blobs, lost)],
                                   TRUE, Empty))
    /\ UNCHANGED <<table, blobs, nextUid, started, env>>

\* db.get_all_employees: one table.scan call, the first or the one with
\* ExclusiveStartKey = LastEvaluatedKey of the response before; its items are
\* appended; without LastEvaluatedKey the loop ends and the service returns
\* the employees with their picture URLs.  A store error returns [].
AllScan(p) ==
    /\ At(p, "all_scan")
    /\ \E fail \in DbFail, n \in PageSize..MaxPageSize, full \in BOOLEAN,
          lost \in LostListings :
          LET response == ScanPage(table, proc[p].last_key, n, full)
              employees ==
                  proc[p].employees
                  \o [i \in 1..Len(response.Items) |-> FromDict(response.Items[i])]
          IN  Set(p, IF fail
                       THEN Finish([Called(proc[p]) EXCEPT !.employees = <<>>,
                                                           !.last_key = 0],
                                   FALSE, Empty)
                       ELSE IF response.more
                       THEN [Called(proc[p]) EXCEPT
                                !.employees = employees,
                                !.last_key = response.LastEvaluatedKey]
                       ELSE Finish([Called(proc[p]) EXCEPT
                                       !.employees = WithPictureUrls(employees, blobs, lost),
                                       !.last_key = 0],
                                   TRUE, Empty))
    /\ UNCHANGED <<table, blobs, nextUid, started, env>>

(* --------------------------- get_statistics -------------------------- *)

\* EmployeeService.get_statistics()
CallGetStatistics(p) ==
    /\ CanStart(p)
    /\ Begin(p, "get_statistics", "st_scan", NullRec, Empty, FALSE)

\* The records of one scan response as Employee objects.
FromItems(items) == [i \in 1..Len(items) |-> FromDict(items[i])]

\* get_statistics: employees = self.db.get_all_employees(), one table.scan
\* call; a store error makes get_all_employees return [].
StatScan(p) ==
    /\ At(p, "st_scan")
    /\ \E fail \in DbFail, n \in PageSize..MaxPageSize, full \in BOOLEAN :
          LET response == ScanPage(table, proc[p].last_key, n, full)
              employees == proc[p].employees \o FromItems(response.Items)
          IN  Set(p, IF fail
                       THEN Goto([Called(proc[p]) EXCEPT !.employees = <<>>,
                                                         !.last_key = 0], "st_departments")
                       ELSE IF response.more
                       THEN [Called(proc[p]) EXCEPT
                                !.employees = employees,
                                !.last_key = response.LastEvaluatedKey]
                       ELSE Goto([Called(proc[p]) EXCEPT !.employees = employees,
                                                         !.last_key = 0], "st_departments"))
    /\ UNCHANGED <<table, blobs, nextUid, started, env>>

\* get_statistics: departments = self.get_departments(), which scans the
\* table again (db.get_all_employees) and keeps the non-empty departments;
\* one table.scan call.
StatDepartments(p) ==
    /\ At(p, "st_departments")
    /\ \E fail \in DbFail, n \in PageSize..MaxPageSize, full \in BOOLEAN :
          LET response == ScanPage(table, proc[p].last_key, n, full)
              departments ==
                  proc[p].departments
                  \cup ({response.Items[i].department : i \in 1..Len(response.Items)}
                        \ {Empty})
          IN  Set(p, IF fail
                       THEN Goto([Called(proc[p]) EXCEPT !.departments = {},
                                                         !.last_key = 0], "st_positions")
                       ELSE IF response.more
                       THEN [Called(proc[p]) EXCEPT
                                !.departments = departments,
                                !.last_key = response.LastEvaluatedKey]
                       ELSE Goto([Called(proc[p]) EXCEPT !.departments = departments,
                                                         !.last_key = 0], "st_positions"))
    /\ UNCHANGED <<table, blobs, nextUid, started, env>>

\* get_statistics: positions = self.get_positions(), a third scan of the
\* table; one table.scan call.
StatPositions(p) ==
    /\ At(p, "st_positions")
    /\ \E fail \in DbFail, n \in PageSize..MaxPageSize, full \in BOOLEAN :
          LET response == ScanPage(table, proc[p].last_key, n, full)
              positions ==
                  proc[p].positions
                  \cup ({response.Items[i].position : i \in 1..Len(response.Items)}
                        \ {Empty})
          IN  Set(p, IF fail
                       THEN Goto([Called(proc[p]) EXCEPT !.positions = {},
                                                         !.last_key = 0], "st_bucket")
                       ELSE IF response.more
                       THEN [Called(proc[p]) EXCEPT
                                !.positions = positions,
                                !.last_key = response.LastEvaluatedKey]
                       ELSE Goto([Called(proc[p]) EXCEPT !.positions = positions,
                                                         !.last_key = 0], "st_bucket"))
    /\ UNCHANGED <<table, blobs, nextUid, started, env>>

\* emp.department or 'Unknown'
DepartmentOf(emp) == IF emp.department = Empty THEN <<"Unknown">> ELSE emp.department

\* dept_counts of get_statistics
DeptCounts(employees) ==
    [d \in {DepartmentOf(employees[i]) : i \in 1..Len(employees)} |->
        Cardinality({i \in 1..Len(employees) : DepartmentOf(employees[i]) = d})]

\* The dictionary get_statistics returns.
Statistics(employees, departments, positions, storage_error) ==
    [ total_employees |-> Len(employees),
      total_departments |-> Cardinality(departments),
      total_positions |-> Cardinality(positions),
      employees_with_pictures |->
          Cardinality({i \in 1..Len(employees) : employees[i].profile_picture_url # Empty}),
      department_breakdown |-> DeptCounts(employees),
      storage_error |-> storage_error ]

\* get_statistics: storage_info = self.storage.get_bucket_info() (a listing
\* of the bucket; an error is reported inside storage_info), then the
\* dictionary is returned.
StatBucket(p) ==
    /\ At(p, "st_bucket")
    /\ \E fail \in S3Fail :
          Set(p, Finish([Called(proc[p]) EXCEPT
                            !.stats = Statistics(proc[p].employees, proc[p].departments,
                                                 proc[p].positions, fail),
                            !.employees = <<>>, !.departments = {}, !.positions = {}],
                        TRUE, Empty))
    /\ UNCHANGED <<table, blobs, nextUid, started, env>>

(* ---------------------------- health_check -------------------------- *)

\* What describe_table can answer: a TableStatus, or the call raises.
DbProbes == IF env.dbFaults THEN {"ACTIVE", "CREATING", "raises"} ELSE {"ACTIVE"}

\* What list_objects_v2(MaxKeys=1) can answer: a listing, or the call raises.
S3Probes == IF env.s3Faults THEN {"listing", "raises"} ELSE {"listing"}

\* EmployeeDatabase.health_check: TableStatus == 'ACTIVE', False on any
\* exception.
DbHealthCheck(probe) == probe = "ACTIVE"

\* EmployeeStorage.health_check: True, False on any exception.
StorageHealthCheck(probe) == probe # "raises"

\* EmployeeService.health_check()
CallHealthCheck(p) ==
    /\ CanStart(p)
    /\ Begin(p, "health_check", "hc_db", NullRec, Empty, FALSE)

\* health_check: db_healthy = self.db.health_check()
HealthDb(p) ==
    /\ At(p, "hc_db")
    /\ \E probe \in DbProbes :
          Set(p, Goto([Called(proc[p]) EXCEPT !.probes.db = probe,
                                              !.health.database = DbHealthCheck(probe)],
                      "hc_s3"))
    /\ UNCHANGED <<table, blobs, nextUid, started, env>>

HealthStorageEither(p) ==
    /\ At(p, "hc_s3")
    /\ \E probe \in S3Probes :
          LET storage_healthy == StorageHealthCheck(probe)
          IN  Set(p, Finish([Called(proc[p]) EXCEPT
                                !.probes.s3 = probe,
                                !.health.storage = storage_healthy,
                                !.health.overall = proc[p].health.database \/ storage_healthy],
                            TRUE, Empty))
    /\ UNCHANGED <<table, blobs, nextUid, started, env>>

\* health_check: storage_healthy = self.storage.health_check(); the
\* dictionary with 'overall' is returned.
HealthStorage(p) ==
    /\ At(p, "hc_s3")
    /\ \E probe \in S3Probes :
          LET storage_healthy == StorageHealthCheck(probe)
          IN  Set(p, Finish([Called(proc[p]) EXCEPT
                                !.probes.s3 = probe,
                                !.health.storage = storage_healthy,
                                !.health.overall = proc[p].health.database /\ storage_healthy],
                            TRUE, Empty))
    /\ UNCHANGED <<table, blobs, nextUid, started, env>>

(* --------------------------- specifications -------------------------- *)

Next ==
    \E p \in Procs :
        \/ CallAddEmployee(p) \/ CallUpdateEmployee(p) \/ CallDeleteEmployee(p)
        \/ CallUploadProfilePicture(p) \/ CallDeleteProfilePicture(p)
        \/ CallUploadDocument(p) \/ CallDeleteDocument(p) \/ CallWebAdd(p)
        \/ CallHealthCheck(p) \/ HealthDb(p) \/ HealthStorage(p)
        \/ CallGetAllEmployees(p) \/ AllScan(p)
        \/ CallGetStatistics(p) \/ StatScan(p) \/ StatDepartments(p)
        \/ StatPositions(p) \/ StatBucket(p)
        \/ AddValidate(p) \/ AddScanEmail(p) \/ AddCreateGet(p) \/ AddPut(p)
        \/ UpdValidate(p) \/ UpdGet(p) \/ UpdScanEmail(p) \/ UpdDbGet(p) \/ UpdPut(p)
        \/ DelGet(p) \/ DelListPictures(p) \/ DelListDocuments(p) \/ DelObjects(p)
        \/ DelDbGet(p) \/ DelItem(p)
        \/ PicGet(p) \/ PicList(p) \/ PicDelete(p) \/ PicUpload(p) \/ PicDbGet(p)
        \/ PicPut(p)
        \/ DelPicGet(p) \/ DelPicList(p) \/ DelPicDelete(p) \/ DelPicDbGet(p)
        \/ DelPicPut(p)
        \/ DocGet(p) \/ DocUpload(p) \/ DocDelete(p)
        \/ Return(p)

\* Requests one at a time, no store call failing.
InitSeq ==
    Init /\ env = [concurrent |-> FALSE, dbFaults |-> FALSE, s3Faults |-> FALSE,
                   seed |-> Ascending, ops |-> MaxOps,
                   nested |-> FALSE]

\* Requests one at a time, store calls may fail.
InitFaults ==
    Init /\ env = [concurrent |-> FALSE, dbFaults |-> TRUE, s3Faults |-> TRUE,
                   seed |-> Ascending, ops |-> MaxFaultOps,
                   nested |-> FALSE]

\* Overlapping requests, no store call failing.
InitRace ==
    Init /\ env = [concurrent |-> TRUE, dbFaults |-> FALSE, s3Faults |-> FALSE,
                   seed |-> Ascending, ops |-> MaxRaceOps,
                   nested |-> FALSE]

\* Requests one at a time, blob store calls may fail, any uuid draws.
InitUuid ==
    /\ Init
    /\ ~env.concurrent /\ ~env.dbFaults /\ env.s3Faults
    /\ env.ops = MaxFaultOps /\ ~env.nested

\* Few requests, one at a time, no store call failing.
InitScan ==
    Init /\ env = [concurrent |-> FALSE, dbFaults |-> FALSE, s3Faults |-> FALSE,
                   seed |-> Ascending, ops |-> MaxFewOps,
                   nested |-> FALSE]

Spec == Init /\ [][Next]_vars

SpecSeq == InitSeq /\ [][Next]_vars

SpecFaults == InitFaults /\ [][Next]_vars

SpecRace == InitRace /\ [][Next]_vars

SpecUuid == InitUuid /\ [][Next]_vars

\* Few requests, one at a time, no store call failing, nested employee ids.
InitPrefix ==
    Init /\ env = [concurrent |-> FALSE, dbFaults |-> FALSE, s3Faults |-> FALSE,
                   seed |-> Ascending, ops |-> MaxFewOps, nested |-> TRUE]

SpecPrefix == InitPrefix /\ [][Next]_vars

\* The while loop of get_all_employees runs on: a request that can make its
\* next table.scan call makes it.
SpecScan == InitScan /\ [][Next]_vars /\ \A p \in Procs : WF_vars(AllScan(p))

(* ------------------------------ claims ------------------------------- *)

Active(p) == proc[p].pc # "idle"

Done(p) == proc[p].pc = "done"

\* The request of p has returned success (True, or a URL).
Succeeded(p) == Done(p) /\ proc[p].res.ok

\* Whether key k is one of employee id's objects (its key embeds the id).
OwnedBy(k, id) == StartsWith(k, PicturePrefix(id)) \/ StartsWith(k, DocumentPrefix(id))

HoldersOf(t, email) == {i \in DOMAIN t : t[i].email = email}

\* C1: with requests one at a time and no store call failing, after any
\* sequence of add_employee, update_employee, delete_employee,
\* upload_profile_picture and delete_profile_picture no two records of the
\* table have the same email.
C1_EmailUnique ==
    (\A p \in Procs : proc[p].op \in {"none", "add_employee", "update_employee",
                                      "delete_employee", "upload_profile_picture",
                                      "delete_profile_picture"})
    => \A i, j \in DOMAIN table : i # j => table[i].email # table[j].email

\* Two add_employee requests for different ids and the same email, one
\* called while the other was executing.
SameEmailAdds(p, q) ==
    /\ p # q
    /\ proc[q].no \in proc[p].during \/ proc[p].no \in proc[q].during
    /\ proc[p].op = "add_employee" /\ proc[q].op = "add_employee"
    /\ Id(p) # Id(q)
    /\ proc[p].rec.email = proc[q].rec.email

\* C2: when two overlapping add_employee requests for different ids and the
\* same email have both returned success, the table holds both records, two
\* records with that one email.
C2_AddRaceStoresBoth ==
    \A p, q \in Procs :
        (SameEmailAdds(p, q) /\ Succeeded(p) /\ Succeeded(q))
        => /\ {Id(p), Id(q)} \subseteq DOMAIN table
           /\ table[Id(p)] = proc[p].rec
           /\ table[Id(q)] = proc[q].rec
           /\ table[Id(p)].email = table[Id(q)].email

\* C2 witness: both requests were past the duplicate check before either
\* wrote (the table was empty, so a later check would have met the other's
\* record), both returned success, and the table is these two records.
C2_BothAdded ==
    \E p, q \in Procs :
        /\ SameEmailAdds(p, q) /\ Succeeded(p) /\ Succeeded(q)
        /\ DOMAIN table = {Id(p), Id(q)}
        /\ table[Id(p)].email = table[Id(q)].email

\* Every record with a picture reference has a picture object.
NoDanglingReference ==
    \A id \in DOMAIN table :
        table[id].profile_picture_url # Empty
        => ListObjects(blobs, PicturePrefix(id)) # {}

\* C3: right after any request returns success (store calls may have failed
\* during it) every record with a non-empty profile_picture_url has an object
\* under profile-pictures/{employee_id}_.
C3_NoDanglingReference == (\E p \in Procs : Succeeded(p)) => NoDanglingReference

\* Every object belongs to an employee that has a record.
NoOrphanBlob == \A k \in blobs : \E id \in DOMAIN table : OwnedBy(k, id)

\* C4: right after any request returns success (store calls may have failed
\* during it) every object under profile-pictures/ or documents/ embeds the
\* employee_id of a record of the table.
C4_NoOrphanBlob == (\E p \in Procs : Succeeded(p)) => NoOrphanBlob

\* delete_employee(id) has returned, having run alone on an employee that
\* had a record when it was called.
DeletedExisting(p) ==
    /\ Done(p)
    /\ proc[p].op = "delete_employee"
    /\ Id(p) \in DOMAIN proc[p].pre.table

C6_DeletionPermanent ==
    [][\A p \in Procs :
          ( /\ Succeeded(p)
            /\ proc[p].op = "delete_employee"
            /\ Id(p) \notin DOMAIN table
            /\ Id(p) \in DOMAIN table' )
          => \E q \in Procs :
                /\ proc[q].op \in {"add_employee", "web_add"}
                /\ proc[q].pc = "add_put"
                /\ proc[q].rec.employee_id = Id(p)]_vars

\* update_employee has returned, having run alone with a valid record for
\* an id that had a record when it was called.
UpdatedExisting(p) ==
    /\ Done(p)
    /\ proc[p].op = "update_employee"
    /\ IsValid(proc[p].rec)
    /\ Id(p) \in DOMAIN proc[p].pre.table

\* The new email differs from the stored one and another record holds it.
DuplicateForUpdate(p) ==
    /\ proc[p].rec.email # proc[p].pre.table[Id(p)].email
    /\ HoldersOf(proc[p].pre.table, proc[p].rec.email) \ {Id(p)} # {}

\* C7: update_employee run alone for an existing id with a valid record
\* fails exactly when the email changes to one that a record of another id
\* holds, and then the table is unchanged.
C7_UpdateDuplicateCheck ==
    \A p \in Procs :
        UpdatedExisting(p)
        => /\ proc[p].res.ok <=> ~DuplicateForUpdate(p)
           /\ DuplicateForUpdate(p) => table = proc[p].pre.table

\* C8: add_employee run alone with a valid record whose email a record of
\* another id holds fails and leaves the table unchanged.
C8_SequentialDuplicateAdd ==
    \A p \in Procs :
        ( /\ Done(p)
          /\ proc[p].op = "add_employee"
          /\ IsValid(proc[p].rec)
          /\ HoldersOf(proc[p].pre.table, proc[p].rec.email) \ {Id(p)} # {} )
        => /\ ~proc[p].res.ok
           /\ table = proc[p].pre.table

\* add_employee or update_employee was called with a record that fails
\* validation.
InvalidCall(p) ==
    /\ Active(p)
    /\ proc[p].op \in {"add_employee", "update_employee"}
    /\ Len(Validate(proc[p].rec)) > 0

\* C9: add_employee and update_employee called with an invalid record issue
\* no store call, leave both stores as they were and return failure.
C9_ValidationFirst ==
    \A p \in Procs :
        InvalidCall(p)
        => /\ proc[p].calls = 0
           /\ table = proc[p].pre.table
           /\ blobs = proc[p].pre.blobs
           /\ Done(p) => ~proc[p].res.ok

\* C9 witness: such a call has returned.
C9_InvalidReturned == \E p \in Procs : InvalidCall(p) /\ Done(p)

\* C10: when the add route is given a picture and adds the employee, no
\* store call failing, an object exists under profile-pictures/{id}_ and the
\* created record has a non-empty profile_picture_url.
C10_AddWithPicture ==
    \A p \in Procs :
        (Succeeded(p) /\ proc[p].op = "web_add" /\ proc[p].file)
        => /\ ListObjects(blobs, PicturePrefix(Id(p))) # {}
           /\ Id(p) \in DOMAIN table
           /\ table[Id(p)].profile_picture_url # Empty

\* add_employee (called directly or by the add route) has returned success.
Added(p) == Succeeded(p) /\ proc[p].op \in {"add_employee", "web_add"}

\* Record r with its picture reference blanked.
SansUrl(r) == [r EXCEPT !.profile_picture_url = Empty]

\* C11: right after add_employee(record) returns success, get_employee of
\* that id returns a record equal to the added one on every field other than
\* profile_picture_url, and when an object exists under
\* profile-pictures/{id}_ the profile_picture_url returned is a pre-signed
\* URL of such an object.
C11_AddGetRoundTrip ==
    \A p \in Procs :
        Added(p)
        => LET got == GetEmployee(table, blobs, Id(p))
               pictures == ListObjects(blobs, PicturePrefix(Id(p)))
           IN  /\ got.found
               /\ SansUrl(got.rec) = SansUrl(proc[p].rec)
               /\ pictures # {}
                  => \E k \in pictures : got.rec.profile_picture_url = PresignedUrl(k)

\* C11 witness: an employee was added whose id already has a picture object
\* (left behind by an earlier delete_employee whose file deletion failed).
C11_AddedWithPicture ==
    \E p \in Procs : Added(p) /\ ListObjects(blobs, PicturePrefix(Id(p))) # {}

\* update_employee has returned success, having run alone on an existing
\* employee with the stored email and another phone.
OnlyPhoneChanged(p) ==
    /\ Succeeded(p)
    /\ proc[p].op = "update_employee"
    /\ Id(p) \in DOMAIN proc[p].pre.table
    /\ proc[p].rec.email = proc[p].pre.table[Id(p)].email
    /\ proc[p].rec.phone # proc[p].pre.table[Id(p)].phone

\* C12: an update of an existing employee that changes only the phone leaves
\* every other stored field, created_at included, as it was and makes the
\* stored updated_at strictly greater.
C12_UpdateRoundTrip ==
    \A p \in Procs :
        OnlyPhoneChanged(p)
        => LET old == proc[p].pre.table[Id(p)]
               new == table[Id(p)]
           IN  /\ [new EXCEPT !.phone = old.phone, !.updated_at = old.updated_at] = old
               /\ new.phone = proc[p].rec.phone
               /\ new.updated_at > old.updated_at

\* delete_employee was called alone for an employee that had a record.
DeletingExisting(p) ==
    /\ proc[p].op = "delete_employee"
    /\ Id(p) \in DOMAIN proc[p].pre.table

\* C13: in delete_employee for an existing id the record deletion is reached
\* only after the file deletion was attempted (it failed, or no object of the
\* employee is left), a failed file deletion leads on to the record
\* deletion, and delete_employee returns success exactly when the record was
\* deleted.
C13_BestEffortCleanup ==
    \A p \in Procs :
        DeletingExisting(p)
        => /\ proc[p].pc \in {"del_db_get", "del_item"}
              => \/ ~proc[p].storage_ok
                 \/ \A k \in blobs : ~OwnedBy(k, Id(p))
           /\ ~proc[p].storage_ok => proc[p].pc \in {"del_db_get", "del_item"}
           /\ Done(p) => (proc[p].res.ok <=> Id(p) \notin DOMAIN table)

\* C13 witness: delete_employee returned success although objects of the
\* employee are still in the bucket.
C13_DeletedDespiteCleanupFailure ==
    \E p \in Procs :
        /\ DeletingExisting(p) /\ Succeeded(p)
        /\ \E k \in blobs : OwnedBy(k, Id(p))

\* A request for an employee_id that had no record when it was called alone.
AbsentCall(p) ==
    /\ Active(p)
    /\ proc[p].op \in {"update_employee", "delete_employee", "upload_document",
                       "upload_profile_picture", "delete_profile_picture"}
    /\ Id(p) \notin DOMAIN proc[p].pre.table

\* C14: update_employee, delete_employee, upload_document,
\* upload_profile_picture and delete_profile_picture called alone for an id
\* without a record leave the table and the bucket as they were and return
\* failure.
C14_AbsentEmployeeNoEffect ==
    \A p \in Procs :
        AbsentCall(p)
        => /\ table = proc[p].pre.table
           /\ blobs = proc[p].pre.blobs
           /\ Done(p) => ~proc[p].res.ok

\* C14 witness: upload_document for an absent employee has returned after
\* its lookup.
C14_AbsentUploadReturned ==
    \E p \in Procs :
        AbsentCall(p) /\ Done(p) /\ proc[p].op = "upload_document" /\ proc[p].calls = 1

\* C15: right after upload_profile_picture returns success, run alone,
\* exactly one object exists under profile-pictures/{employee_id}_, the one
\* this call uploaded.
C15_OneCurrentPicture ==
    \A p \in Procs :
        (Succeeded(p) /\ proc[p].op = "upload_profile_picture")
        => \E k \in blobs :
              /\ ObjectUrl(k) = proc[p].res.url
              /\ ListObjects(blobs, PicturePrefix(Id(p))) = {k}

\* C16: for a record with no object under profile-pictures/{employee_id}_
\* get_employee returns the record with an empty profile_picture_url.
C16_NoPictureEmptyUrl ==
    \A id \in DOMAIN table :
        ListObjects(blobs, PicturePrefix(id)) = {}
        => LET got == GetEmployee(table, blobs, id)
           IN  got.found /\ got.rec.profile_picture_url = Empty

\* The object of ks that was uploaded last.
Newest(ks) == CHOOSE k \in ks : \A y \in ks : UuidNum(y) <= UuidNum(k)

\* C17: for a record with several objects under
\* profile-pictures/{employee_id}_ get_employee returns the pre-signed URL
\* of the one uploaded most recently.
C17_NewestPicture ==
    \A id \in DOMAIN table :
        LET pictures == ListObjects(blobs, PicturePrefix(id))
        IN  Cardinality(pictures) > 1
            => GetEmployee(table, blobs, id).rec.profile_picture_url
               = PresignedUrl(Newest(pictures))

\* C18: an add_employee whose duplicate-email lookup raised a store error
\* returns failure and leaves the table as it was.
C18_LookupFailureSurfaced ==
    \A p \in Procs :
        (proc[p].op \in {"add_employee", "web_add"} /\ proc[p].scan_raised)
        => /\ table = proc[p].pre.table
           /\ Done(p) => ~proc[p].res.ok

\* C19: health_check returns, whatever the probes meet (a raising probe
\* included), a dictionary whose 'database' and 'storage' tell whether the
\* probe found the store healthy and whose 'overall' is their conjunction,
\* and both stores are as they were.
C19_HealthCheckReturns ==
    \A p \in Procs :
        (proc[p].op = "health_check" /\ Done(p))
        => /\ proc[p].res.ok
           /\ proc[p].health.database <=> proc[p].probes.db = "ACTIVE"
           /\ proc[p].health.storage <=> proc[p].probes.s3 = "listing"
           /\ proc[p].health.overall
              <=> (proc[p].health.database /\ proc[p].health.storage)
           /\ table = proc[p].pre.table
           /\ blobs = proc[p].pre.blobs

\* C19 witness: the record store probe raised, the blob store probe did
\* not, and health_check returned a degraded status.
C19_DegradedReturned ==
    \E p \in Procs :
        /\ proc[p].op = "health_check" /\ Done(p)
        /\ proc[p].probes = [db |-> "raises", s3 |-> "listing"]
        /\ proc[p].health = [database |-> FALSE, storage |-> TRUE, overall |-> FALSE]

\* The rules of the validator that record e violates, each named by the
\* message that reports it.
ViolatedRules(e) ==
    {m \in { "Employee ID is required" } : e.employee_id = Empty}
    \cup {m \in { "First name is required" } : Strip(e.first_name) = Empty}
    \cup {m \in { "First name must be 50 characters or less" } : Len(e.first_name) > 50}
    \cup {m \in { "Last name is required" } : Strip(e.last_name) = Empty}
    \cup {m \in { "Last name must be 50 characters or less" } : Len(e.last_name) > 50}
    \cup {m \in { "Email is required" } : Strip(e.email) = Empty}
    \cup {m \in { "Invalid email format" } :
             ~(Contains(e.email, "@") /\ Contains(e.email, "."))}
    \cup {m \in { "Email must be 100 characters or less" } : Len(e.email) > 100}
    \cup {m \in { "Position is required" } : e.position = Empty}
    \cup {m \in { "Position must be 100 characters or less" } : Len(e.position) > 100}
    \cup {m \in { "Department is required" } : e.department = Empty}
    \cup {m \in { "Department must be 50 characters or less" } : Len(e.department) > 50}
    \cup {m \in { "Phone number must be 20 characters or less" } :
             e.phone # Empty /\ Len(e.phone) > 20}

\* C20: for every record a request validates, the error list of validate
\* holds exactly one message for each rule the record violates: none for a
\* record violating no rule, one for a record violating one rule, all of
\* them for a record violating several.
C20_ValidateReportsAll ==
    \A p \in Procs :
        proc[p].op \in {"add_employee", "update_employee", "web_add"}
        => LET errors == Validate(proc[p].rec)
           IN  /\ {errors[i] : i \in 1..Len(errors)} = ViolatedRules(proc[p].rec)
               /\ Len(errors) = Cardinality(ViolatedRules(proc[p].rec))
               /\ IsValid(proc[p].rec) <=> ViolatedRules(proc[p].rec) = {}

\* One of the two requests was called while the other was executing.
Overlap(p, q) ==
    /\ p # q
    /\ proc[q].no \in proc[p].during \/ proc[p].no \in proc[q].during

\* Two overlapping update_employee requests for one existing id, with valid
\* records whose emails no other employee holds.
UpdateRace(p, q) ==
    /\ Overlap(p, q)
    /\ proc[p].op = "update_employee" /\ proc[q].op = "update_employee"
    /\ Id(p) = Id(q)
    /\ Id(p) \in DOMAIN table
    /\ IsValid(proc[p].rec) /\ IsValid(proc[q].rec)
    /\ \A i \in DOMAIN table \ {Id(p)} :
          table[i].email \notin {proc[p].rec.email, proc[q].rec.email}

\* The step is the put_item of update_employee request w.
UpdateWrites(w) == At(w, "upd_put") /\ proc'[w].pc = "done"

\* C21: of two overlapping update_employee requests for the same existing id
\* with valid, non-conflicting records, each one that has returned has
\* returned success; each one's write makes the stored record equal, field
\* for field, to its own record (with the updated_at of the write), whatever
\* the other wrote before; and nothing but these two writes changes the
\* table, so that the stored record is the one of the last write.
C21_LastWriterWins ==
    /\ [](\A p, q \in Procs : (UpdateRace(p, q) /\ Done(p)) => proc[p].res.ok)
    /\ [][\A p, q \in Procs :
            UpdateRace(p, q)
            => /\ UpdateWrites(p)
                  => /\ proc'[p].res.ok
                     /\ table' = PutItem(table, UpdateTimestamp(proc[p].rec))
                     /\ table'[Id(p)] = UpdateTimestamp(proc[p].rec)
               /\ table' # table => UpdateWrites(p) \/ UpdateWrites(q)]_vars

\* C21 witness: both requests have returned success, and the stored record
\* is the one of the first caller although the second caller's record
\* differs (the first caller wrote last).
C21_SecondWriteOverwritten ==
    \E p, q \in Procs :
        /\ UpdateRace(p, q) /\ Succeeded(p) /\ Succeeded(q)
        /\ proc[p].no < proc[q].no
        /\ SansUrl(proc[p].rec) # SansUrl(proc[q].rec)
        /\ table[Id(p)] = [proc[p].rec EXCEPT !.updated_at = table[Id(p)].updated_at]

\* upload_document has returned success, having run alone.
DocumentUploaded(p) == Succeeded(p) /\ proc[p].op = "upload_document"

\* C22: right after upload_document returns success, run alone, the bucket
\* holds every object it held before and exactly one more, whose key lies
\* under documents/{employee_id}_ and whose URL is the one returned; so every
\* further upload of the same filename and type adds one more object.
C22_UploadOnlyAdds ==
    \A p \in Procs :
        DocumentUploaded(p)
        => /\ proc[p].pre.blobs \subseteq blobs
           /\ \E k \in blobs \ proc[p].pre.blobs :
                 /\ blobs \ proc[p].pre.blobs = {k}
                 /\ StartsWith(k, DocumentPrefix(Id(p)))
                 /\ ObjectUrl(k) = proc[p].res.url

\* C22 witness: the third successful upload_document for one employee has
\* returned and the employee has three documents.
C22_ThreeDocuments ==
    \E p \in Procs :
        /\ DocumentUploaded(p)
        /\ Cardinality(ListObjects(proc[p].pre.blobs, DocumentPrefix(Id(p)))) = 2
        /\ Cardinality(ListObjects(blobs, DocumentPrefix(Id(p)))) = 3

\* get_all_employees is running or has returned, having been called alone.
ListingAll(p) == Active(p) /\ proc[p].op = "get_all_employees"

\* C23: get_all_employees called alone on a table that returns its items
\* over any number of pages makes at most one scan call per stored record
\* and one more, returns, and the list it returns holds every stored record
\* exactly once (each with the stored fields, the picture reference
\* refreshed).
C23_FullScanComplete ==
    /\ [](\A p \in Procs :
            ListingAll(p)
            => /\ proc[p].calls <= Cardinality(DOMAIN table) + 1
               /\ \A i, j \in 1..Len(proc[p].employees) :
                     proc[p].employees[i].employee_id = proc[p].employees[j].employee_id
                     => i = j
               /\ Done(p)
                  => /\ proc[p].res.ok
                     /\ {proc[p].employees[i].employee_id :
                            i \in 1..Len(proc[p].employees)} = DOMAIN table
                     /\ \A i \in 1..Len(proc[p].employees) :
                           SansUrl(proc[p].employees[i])
                           = SansUrl(table[proc[p].employees[i].employee_id]))
    /\ \A p \in Procs : ListingAll(p) ~> Done(p)

\* C23 witness: a listing of three records has returned after more than one
\* scan call.
C23_ListedOverPages ==
    \E p \in Procs :
        /\ ListingAll(p) /\ Done(p)
        /\ Len(proc[p].employees) = 3
        /\ proc[p].calls > 1

\* C24: the get_employee_by_email call a request is about to make (no store
\* error) returns None only if no stored record has the email, and otherwise
\* returns a record with that email.
C24_FindByEmailComplete ==
    \A p \in Procs :
        proc[p].pc \in {"add_scan", "upd_scan"}
        => LET found == GetEmployeeByEmail(table, proc[p].rec.email, FALSE)
           IN  /\ found.found => found.rec.email = proc[p].rec.email
               /\ ~found.found => HoldersOf(table, proc[p].rec.email) = {}

\* add_employee was called alone with the id of a stored record.
AddingExisting(p) ==
    /\ proc[p].op = "add_employee"
    /\ Id(p) \in DOMAIN proc[p].pre.table

\* C25: an add_employee called alone for an id that has a record never
\* reaches the put_item of create_employee, leaves the table as it was and
\* returns failure.
C25_CreateNeverOverwrites ==
    \A p \in Procs :
        AddingExisting(p)
        => /\ proc[p].pc # "add_put"
           /\ table = proc[p].pre.table
           /\ Done(p) => ~proc[p].res.ok

\* C25 witness: create_employee was called (the email lookup found no
\* duplicate) and its existence check made the request fail.
C25_CreateRejected ==
    \E p \in Procs :
        /\ AddingExisting(p) /\ Done(p) /\ ~proc[p].res.ok
        /\ proc[p].calls = 2
        /\ proc[p].rec.email # proc[p].pre.table[Id(p)].email

\* C26: an add_employee called alone for an id that has a record, in whose
\* create_employee the existence read raised a store error, leaves the table
\* as it was and returns failure.
C26_CreateCheckFailureSurfaced ==
    \A p \in Procs :
        (AddingExisting(p) /\ proc[p].get_raised)
        => /\ table = proc[p].pre.table
           /\ Done(p) => ~proc[p].res.ok

\* The employee_id an upload put into key k.
KeyOwner(k) ==
    IF StartsWith(k, S3_PROFILE_PICTURES_PREFIX)
      THEN SubSeq(k, 2, Len(k) - 3)
      ELSE SubSeq(k, 2, Len(k) - 5)

\* C27: delete_employee(id) and delete_profile_picture(id), called alone,
\* remove no object that an upload for another employee_id made, also when
\* that employee_id begins with id followed by an underscore.
C27_DeletionWithinEmployee ==
    \A p \in Procs :
        proc[p].op \in {"delete_employee", "delete_profile_picture"}
        => \A k \in proc[p].pre.blobs \ blobs : KeyOwner(k) = Id(p)

\* The step is the record write-back of picture request p.
PictureWrites(p) ==
    /\ proc[p].op \in {"upload_profile_picture", "delete_profile_picture"}
    /\ proc[p].pc \in {"pic_put", "dp_put"}
    /\ proc'[p].pc = "done"

\* C28: the record write-back of upload_profile_picture and of
\* delete_profile_picture changes no field of the stored record other than
\* profile_picture_url and updated_at, also when an update_employee for the
\* same id has written the record since the picture request read it.
C28_PictureWriteKeepsFields ==
    [][\A p \in Procs :
          (PictureWrites(p) /\ Id(p) \in DOMAIN table)
          => /\ Id(p) \in DOMAIN table'
             /\ [table'[Id(p)] EXCEPT
                    !.profile_picture_url = table[Id(p)].profile_picture_url,
                    !.updated_at = table[Id(p)].updated_at] = table[Id(p)]]_vars

\* C29: when two overlapping upload_profile_picture requests for one
\* employee have both returned, at most one object exists under
\* profile-pictures/{employee_id}_.
C29_OnePictureAfterRace ==
    \A p, q \in Procs :
        ( /\ Overlap(p, q)
          /\ proc[p].op = "upload_profile_picture"
          /\ proc[q].op = "upload_profile_picture"
          /\ Id(p) = Id(q)
          /\ Done(p) /\ Done(q) )
        => Cardinality(ListObjects(blobs, PicturePrefix(Id(p)))) <= 1

\* C30: when an upload_document or upload_profile_picture overlapping a
\* delete_employee for the same id have both returned and the record is
\* absent, no object exists under documents/{id}_ or profile-pictures/{id}_.
C30_NoOrphanAfterRace ==
    \A p, q \in Procs :
        ( /\ Overlap(p, q)
          /\ proc[p].op \in {"upload_document", "upload_profile_picture"}
          /\ proc[q].op = "delete_employee"
          /\ Id(p) = Id(q)
          /\ Done(p) /\ Done(q)
          /\ Id(p) \notin DOMAIN table )
        => \A k \in blobs : ~OwnedBy(k, Id(p))

\* C31: delete_document(s3_key), called alone, removes no object whose key
\* lies outside documents/, and so no picture that a stored record
\* references.
C31_DeleteDocumentOnlyDocuments ==
    \A p \in Procs :
        proc[p].op = "delete_document"
        => \A k \in proc[p].pre.blobs \ blobs :
              /\ StartsWith(k, DOCUMENTS_PREFIX)
              /\ \A id \in DOMAIN table : table[id].profile_picture_url # ObjectUrl(k)

\* C32: under any interleaving of requests, validate reports no error for
\* any stored record, and every step that writes a record writes one for
\* which validate reports no error.
C32_StoredRecordsValid ==
    /\ [](\A id \in DOMAIN table : Validate(table[id]) = <<>>)
    /\ [][\A id \in DOMAIN table' :
            (id \notin DOMAIN table \/ table'[id] # table[id])
            => Validate(table'[id]) = <<>>]_vars

\* C32 witness: while an add_employee that has since stored its record was
\* executing, another request with a record that fails validation was
\* called, and it has returned failure.
C32_InvalidRejectedDuringAdd ==
    \E p, q \in Procs :
        /\ Overlap(p, q)
        /\ Added(p) /\ table[Id(p)] = proc[p].rec
        /\ proc[q].op \in {"add_employee", "update_employee", "web_add"}
        /\ Validate(proc[q].rec) # <<>>
        /\ Done(q) /\ ~proc[q].res.ok

\* C33: right after upload_profile_picture, called alone, returns a URL, the
\* stored record of the employee has that URL as its profile_picture_url (a
\* failed write-back makes the call return failure).
C33_ReturnedUrlPersisted ==
    \A p \in Procs :
        ( /\ proc[p].op = "upload_profile_picture"
          /\ Done(p)
          /\ proc[p].res.url # Empty )
        => /\ Id(p) \in DOMAIN table
           /\ table[Id(p)].profile_picture_url = proc[p].res.url

RECURSIVE SumOver(_, _)
\* The sum of the counts of breakdown f over the departments ds.
SumOver(f, ds) ==
    IF ds = {} THEN 0
    ELSE LET d == CHOOSE x \in ds : TRUE IN f[d] + SumOver(f, ds \ {d})

\* The step is one of get_statistics request p.
StatisticsSteps(p) == proc[p].op = "get_statistics" /\ proc'[p] # proc[p]

\* C34: in every dictionary get_statistics returns, total_departments is the
\* number of departments of department_breakdown and total_employees is the
\* sum of its counts, also when add_employee, update_employee or
\* delete_employee requests complete while get_statistics runs; and no step
\* of get_statistics changes the table or the bucket.
C34_StatisticsOneSnapshot ==
    /\ [](\A p \in Procs :
            (proc[p].op = "get_statistics" /\ Done(p))
            => LET stats == proc[p].stats
               IN  /\ stats.total_departments
                      = Cardinality(DOMAIN stats.department_breakdown)
                   /\ stats.total_employees
                      = SumOver(stats.department_breakdown,
                                DOMAIN stats.department_breakdown))
    /\ [][\A p \in Procs : StatisticsSteps(p) => UNCHANGED <<table, blobs>>]_vars

====
